---- MODULE Spec2Model ----
(***************************************************************************)
(* A model of trafilatura/readability_lxml.py: Document.summary() and the  *)
(* tree passes it drives (pruning, div normalisation, scoring, selection,  *)
(* article assembly, sanitizing, the ruthless/lenient retry loop).         *)
(*                                                                         *)
(* The lxml tree is an arena: a sequence of element records addressed by   *)
(* index.  An element record holds its tag, its class and id attribute     *)
(* (the string "" stands for an absent attribute), its text, its tail and  *)
(* the ordered indices of its children.  An element that is excised or     *)
(* moved leaves its parent's list of children and keeps its own record.    *)
(*                                                                         *)
(* A text is a sequence of runs [c, n]: n >= 1 copies of the character c.  *)
(* Characters are "x" (a letter), ",", ".", " " and "\n".                   *)
(*                                                                         *)
(* Scores, densities and thresholds are Python floats: IEEE 754 binary64   *)
(* values, every operation rounded to nearest, ties to even.               *)
(***************************************************************************)
EXTENDS Integers, Sequences, FiniteSets, TLC

VARIABLES
    tree,        \* the arena of element records
    doc,         \* self.doc: index of the root element of the document
    min_text_length,  \* self.min_text_length
    retry_length,     \* self.retry_length
    pc,          \* position of summary() in its loop
    ruthless,    \* the local variable ruthless of summary()
    candidates,  \* the dict candidates: element index -> score
    ordered,     \* keys of candidates in insertion order
    best,        \* best_candidate's element, 0 for None
    article,     \* the local variable article of summary(), 0 before it is set
    allowed,     \* sanitize(): the set allowed
    tagIdx,      \* sanitize(): position of reverse_tags in its tag names
    queue,       \* sanitize(): elements reverse_tags has still to yield for that tag
    cleanedLen,  \* len(cleaned_article or "")
    passes,      \* number of iterations of the loop of summary() begun so far
    origIds,     \* elements of the document given to Document()
    retagLog,    \* what transform_misused_divs_into_paragraphs did to each div
    densityLog,  \* the link density score_paragraphs used for each candidate
    siblingLog,  \* what get_article decided for each sibling
    evalLog,     \* what sanitize decided for each element reverse_tags yielded
    firstFragment, \* elements of the fragment the RUTHLESS pass sanitized ({} if none)
    steps        \* number of steps summary() has taken

vars == <<tree, doc, min_text_length, retry_length, pc, ruthless, candidates,
          ordered, best, article, allowed, tagIdx, queue, cleanedLen, passes,
          origIds, retagLog, densityLog, siblingLog, evalLog, firstFragment, steps>>

-----------------------------------------------------------------------------
(* Generic helpers *)

Range(s) == {s[i] : i \in 1..Len(s)}

RECURSIVE SumSeq(_, _)
SumSeq(s, i) == IF i > Len(s) THEN 0 ELSE s[i] + SumSeq(s, i + 1)

IndexOf(s, x) == CHOOSE i \in 1..Len(s) : s[i] = x

RemoveAt(s, i) == SubSeq(s, 1, i - 1) \o SubSeq(s, i + 1, Len(s))

InsertAt(s, i, x) == SubSeq(s, 1, i - 1) \o <<x>> \o SubSeq(s, i, Len(s))

Reverse(s) == [i \in 1..Len(s) |-> s[Len(s) + 1 - i]]

-----------------------------------------------------------------------------
(* Python floats: IEEE 754 binary64, round to nearest, ties to even *)

\* A natural number of any size is a sequence of limbs below 2^15, the least
\* significant first, without leading zero limbs; <<>> is 0.
\* A float is the record of (-1)^neg * m * 2^e with m odd and below 2^53,
\* or FloatZero.
Limb == 2 ^ 15

FloatZero == [neg |-> FALSE, m |-> <<>>, e |-> 0]

\* The arithmetic is one operator, Arith(op, a, b, c): it evaluates its
\* arguments once and hands them to the operation that op names.
RECURSIVE Arith(_, _, _, _), ArithOf(_, _, _, _)
Arith(op, a, b, c) ==
    CHOOSE r \in {ArithOf(op, x, y, z) : x \in {a}, y \in {b}, z \in {c}} : TRUE

ArithOf(op, a, b, c) ==
    CASE op = "int" ->        \* the limbs of the int a >= 0
           IF a = 0 THEN <<>> ELSE <<a % Limb>> \o Arith("int", a \div Limb, 0, 0)
      [] op = "norm" ->       \* a without leading zero limbs
           IF a = <<>> THEN <<>>
           ELSE IF a[Len(a)] = 0 THEN Arith("norm", SubSeq(a, 1, Len(a) - 1), 0, 0)
           ELSE a
      [] op = "add" ->        \* a + b + c, c a carry
           IF a = <<>> /\ b = <<>> THEN Arith("int", c, 0, 0)
           ELSE LET x == (IF a = <<>> THEN 0 ELSE a[1]) + (IF b = <<>> THEN 0 ELSE b[1]) + c
                IN  <<x % Limb>> \o Arith("add", IF a = <<>> THEN a ELSE Tail(a),
                                          IF b = <<>> THEN b ELSE Tail(b), x \div Limb)
      [] op = "sub" ->        \* a - b - c for a >= b + c, c a borrow; not normalised
           IF a = <<>> THEN <<>>
           ELSE LET x == a[1] - (IF b = <<>> THEN 0 ELSE b[1]) - c
                IN  <<x % Limb>> \o Arith("sub", Tail(a), IF b = <<>> THEN b ELSE Tail(b),
                                          IF x < 0 THEN 1 ELSE 0)
      [] op = "cmp" ->        \* -1, 0, 1 as a is below, equal to, above b
           IF Len(a) # Len(b) THEN (IF Len(a) < Len(b) THEN -1 ELSE 1)
           ELSE LET D == {i \in 1..Len(a) : a[i] # b[i]}
                    top == CHOOSE i \in D : \A k \in D : k <= i
                IN  IF D = {} THEN 0 ELSE IF a[top] < b[top] THEN -1 ELSE 1
      [] op = "mulsmall" ->   \* a * b + c for b, c below 2^15; not normalised
           IF a = <<>> THEN Arith("int", c, 0, 0)
           ELSE LET x == a[1] * b + c
                IN  <<x % Limb>> \o Arith("mulsmall", Tail(a), b, x \div Limb)
      [] op = "shift" ->      \* a * Limb^b
           IF a = <<>> THEN <<>> ELSE [i \in 1..b |-> 0] \o a
      [] op = "mul" ->        \* a * b
           IF a = <<>> \/ b = <<>> THEN <<>>
           ELSE Arith("add", Arith("mulsmall", a, b[1], 0),
                      Arith("shift", Arith("mul", a, Tail(b), 0), 1, 0), 0)
      [] op = "shl" ->        \* a * 2^b
           Arith("shift", Arith("mulsmall", a, 2 ^ (b % 15), 0), b \div 15, 0)
      [] op = "div" ->        \* quotient and remainder of a by b, 0 < b <= 2^15;
                              \* c = <<remainder, quotient>> of the limbs done
           IF a = <<>> THEN [q |-> Arith("norm", c[2], 0, 0), r |-> c[1]]
           ELSE LET x == c[1] * Limb + a[Len(a)]
                IN  Arith("div", SubSeq(a, 1, Len(a) - 1), b,
                          <<x % b, <<x \div b>> \o c[2]>>)
      [] op = "shr" ->        \* a \div 2^b
           Arith("div", SubSeq(a, (b \div 15) + 1, Len(a)), 2 ^ (b % 15),
                 <<0, <<>>>>).q
      [] op = "intbits" ->    \* the number of bits of the int a >= 0
           IF a = 0 THEN 0 ELSE 1 + Arith("intbits", a \div 2, 0, 0)
      [] op = "bits" ->       \* the number of bits of a
           IF a = <<>> THEN 0
           ELSE 15 * (Len(a) - 1) + Arith("intbits", a[Len(a)], 0, 0)
      [] op = "intzeros" ->   \* the number of trailing zero bits of the int a > 0
           IF a % 2 = 1 THEN 0 ELSE 1 + Arith("intzeros", a \div 2, 0, 0)
      [] op = "zeros" ->      \* the number of trailing zero bits of a # 0
           IF a[1] = 0 THEN 15 + Arith("zeros", Tail(a), 0, 0)
           ELSE Arith("intzeros", a[1], 0, 0)
      [] op = "canon" ->      \* the record of (-1)^b * a * 2^c; c = <<e, zeros of a>>
           IF a = <<>> THEN FloatZero
           ELSE IF Len(c) = 1 THEN Arith("canon", a, b, <<c[1], Arith("zeros", a, 0, 0)>>)
           ELSE [neg |-> b, m |-> Arith("shr", a, c[2], 0), e |-> c[1] + c[2]]
      [] op = "round" ->      \* the float nearest to (-1)^b * a * 2^c
           LET s == Arith("bits", a, 0, 0) - 53
           IN  IF s <= 0 THEN Arith("canon", a, b, <<c>>)
               ELSE Arith("nearest", a, Arith("shr", a, s, 0), <<b, c, s>>)
      [] op = "nearest" ->    \* a rounded to its quotient b by 2^s, c = <<neg, e, s>>:
                              \* up when the rest is above half, or is half and b is odd
           LET rest == Arith("norm", Arith("sub", a, Arith("shl", b, c[3], 0), 0), 0, 0)
               half == Arith("shl", <<1>>, c[3] - 1, 0)
               up == Arith("cmp", rest, half, 0) + (b[1] % 2) >= 1
           IN  Arith("canon", IF up THEN Arith("add", b, <<1>>, 0) ELSE b, c[1],
                     <<c[2] + c[3]>>)
      [] op = "float" ->      \* float(a) for an int a
           Arith("canon", Arith("int", IF a < 0 THEN -a ELSE a, 0, 0), a < 0, <<0>>)
      [] op = "neg" ->        \* -a
           IF a.m = <<>> THEN a ELSE [a EXCEPT !.neg = ~@]
      [] op = "half" ->       \* a / 2
           IF a.m = <<>> THEN a ELSE [a EXCEPT !.e = @ - 1]
      [] op = "fadd" ->       \* a + b
           IF a.m = <<>> THEN b
           ELSE IF b.m = <<>> THEN a
           ELSE LET e == IF a.e <= b.e THEN a.e ELSE b.e
                IN  Arith("aligned", Arith("shl", a.m, a.e - e, 0),
                          Arith("shl", b.m, b.e - e, 0), <<a.neg, b.neg, e>>)
      [] op = "aligned" ->    \* (-1)^c[1] * a * 2^c[3] + (-1)^c[2] * b * 2^c[3]
           IF c[1] = c[2] THEN Arith("round", Arith("add", a, b, 0), c[1], c[3])
           ELSE LET r == Arith("cmp", a, b, 0)
                IN  IF r = 1
                    THEN Arith("round", Arith("norm", Arith("sub", a, b, 0), 0, 0),
                               c[1], c[3])
                    ELSE Arith("round", Arith("norm", Arith("sub", b, a, 0), 0, 0),
                               c[2], c[3])
      [] op = "fmul" ->       \* a * b
           Arith("round", Arith("mul", a.m, b.m, 0), a.neg # b.neg, a.e + b.e)
      [] op = "truediv" ->    \* a / b for ints a >= 0 and 0 < b < 2^15: 75 bits of
                              \* the quotient and one more that says whether
                              \* anything is left
           Arith("quotient", Arith("div", Arith("shl", Arith("int", a, 0, 0), 75, 0), b,
                                   <<0, <<>>>>), 0, 0)
      [] op = "quotient" ->
           IF a.r = 0 THEN Arith("round", a.q, FALSE, -75)
           ELSE Arith("round", Arith("add", Arith("mulsmall", a.q, 2, 0), <<1>>, 0),
                      FALSE, -76)
      [] op = "lt" ->         \* a < b: the difference is negative (rounding keeps
                              \* its sign)
           Arith("fadd", a, Arith("neg", b, 0, 0), 0).neg
      [] op = "min" ->        \* min(a, b) of Python: the first of two equal ones
           IF Arith("lt", b, a, 0) THEN b ELSE a
      [] op = "max" ->        \* max(a, b) of Python: the first of two equal ones
           IF Arith("lt", a, b, 0) THEN b ELSE a

\* float(n) for an int n
float(n) == Arith("float", n, 0, 0)

\* x + y
float_add(x, y) == Arith("fadd", x, y, 0)

\* x - y
float_sub(x, y) == Arith("fadd", x, Arith("neg", y, 0, 0), 0)

\* x * y
float_mul(x, y) == Arith("fmul", x, y, 0)

\* x / 2
float_half(x) == Arith("half", x, 0, 0)

\* n / d for ints n >= 0 and 0 < d < 2^15
float_truediv(n, d) == Arith("truediv", n, d, 0)

\* x < y
float_lt(x, y) == Arith("lt", x, y, 0)

float_ge(x, y) == ~Arith("lt", x, y, 0)

float_min(x, y) == Arith("min", x, y, 0)

float_max(x, y) == Arith("max", x, y, 0)

-----------------------------------------------------------------------------
(* Texts *)

Run(c, n) == [c |-> c, n |-> n]

Whitespace == {" ", "\n"}

\* len(s)
RawLen(s) == SumSeq([i \in 1..Len(s) |-> s[i].n], 1)

\* s.count(c)
CountChar(s, c) == SumSeq([i \in 1..Len(s) |-> IF s[i].c = c THEN s[i].n ELSE 0], 1)

\* bool(s.strip())
HasNonSpace(s) == \E i \in 1..Len(s) : s[i].c \notin Whitespace

\* len(trim(s)): trim joins the whitespace-separated words of s with single
\* spaces, so every inner stretch of whitespace counts for one character and
\* the leading and trailing ones for none
trimLen(s) ==
    LET ink == {i \in 1..Len(s) : s[i].c \notin Whitespace}
    IN  SumSeq([i \in 1..Len(s) |-> IF i \in ink THEN s[i].n ELSE 0], 1)
        + Cardinality({i \in ink : i > 1 /\ (i - 1) \notin ink
                                   /\ \E j \in ink : j < i})

\* re.search(r"\.( |$)", s): a period followed by a space, or at the end of
\* the string, or just before a newline that ends the string (Python's $)
SearchPeriodRe(s) ==
    \E i \in 1..Len(s) :
        /\ s[i].c = "."
        /\ \/ i = Len(s)
           \/ s[i + 1].c = " "
           \/ i + 1 = Len(s) /\ s[i + 1] = Run("\n", 1)

-----------------------------------------------------------------------------
(* Attribute values and tag names: what the regular expressions and the      *)
(* serializer see of them                                                    *)

unlikelyCandidatesRe ==
    {"combx", "comment", "community", "disqus", "extra", "foot", "header",
     "menu", "remark", "rss", "shoutbox", "sidebar", "sponsor", "ad-break",
     "agegate", "pagination", "pager", "popup", "tweet", "twitter"}

okMaybeItsACandidateRe == {"and", "article", "body", "column", "main", "shadow"}

positiveRe ==
    {"article", "body", "content", "entry", "hentry", "main", "page",
     "pagination", "post", "text", "blog", "story"}

negativeRe ==
    {"combx", "comment", "com-", "contact", "foot", "footer", "footnote",
     "masthead", "media", "meta", "outbrain", "promo", "related", "scroll",
     "shoutbox", "sidebar", "sponsor", "shopping", "tags", "tool", "widget"}

DIV_TO_P_ELEMS == {"a", "blockquote", "dl", "div", "img", "ol", "p", "pre", "table", "ul"}

DIV_SCORES == {"div", "article"}

BLOCK_SCORES == {"pre", "td", "blockquote"}

BAD_ELEM_SCORES == {"address", "ol", "ul", "dl", "dd", "dt", "li", "form", "aside"}

STRUCTURE_SCORES == {"h1", "h2", "h3", "h4", "h5", "h6", "th", "header", "footer", "nav"}

\* The attribute values of the model ("" is an absent attribute)
AttrValues == {"", "sidebar", "content", "footer", "main-menu", "readabilityBody"}

\* The alternatives of the four class/id expressions that occur in an
\* attribute value, letter case ignored (re.I)
Occurs(v) ==
    CASE v = "sidebar" -> {"sidebar"}
      [] v = "content" -> {"content"}
      [] v = "footer" -> {"foot", "footer"}
      [] v = "main-menu" -> {"main", "menu"}
      [] v = "readabilityBody" -> {"body"}
      [] OTHER -> {}

\* len(v)
AttrLen(v) ==
    CASE v = "sidebar" -> 7
      [] v = "content" -> 7
      [] v = "footer" -> 6
      [] v = "main-menu" -> 9
      [] v = "readabilityBody" -> 15
      [] OTHER -> 0

\* regex.search(v) for one of the four expressions
Search(regex, v) == Occurs(v) \cap regex # {}

\* The tag names of the model
TagNames ==
    {"html", "body", "div", "p", "a", "span", "abbr", "img", "table", "ul",
     "section", "h2", "script", "form", "br", "td"}

\* len(tag)
TagLen(tag) ==
    CASE tag \in {"p", "a"} -> 1
      [] tag \in {"h2", "ul", "br", "td"} -> 2
      [] tag \in {"div", "img"} -> 3
      [] tag \in {"html", "body", "span", "abbr", "form"} -> 4
      [] tag = "table" -> 5
      [] tag = "script" -> 6
      [] tag = "section" -> 7

\* The alternatives of divToPElementsRe that an opening tag "<tag" starts with
DivToPPrefixes(tag) ==
    CASE tag = "abbr" -> {"a"}
      [] tag \in DIV_TO_P_ELEMS -> {tag}
      [] OTHER -> {}

-----------------------------------------------------------------------------
(* The tree *)

Elem(tag, class, id, text, tail, kids) ==
    [tag |-> tag, class |-> class, id |-> id, text |-> text, tail |-> tail,
     kids |-> kids]

Ids(T) == 1..Len(T)

\* elem.getparent(), 0 for None
getparent(T, e) ==
    IF \E q \in Ids(T) : e \in Range(T[q].kids)
    THEN CHOOSE q \in Ids(T) : e \in Range(T[q].kids)
    ELSE 0

\* elem.text_content(): the texts of the element and of its descendants and
\* the tails of its descendants, in document order
RECURSIVE text_content(_, _), kidsText(_, _, _)
text_content(T, e) == T[e].text \o kidsText(T, T[e].kids, 1)

kidsText(T, ks, i) ==
    IF i > Len(ks) THEN <<>>
    ELSE text_content(T, ks[i]) \o T[ks[i]].tail \o kidsText(T, ks, i + 1)

\* node.findall(".//*"): the descendants in document order
RECURSIVE descendants(_, _), kidsDescendants(_, _, _)
descendants(T, e) == kidsDescendants(T, T[e].kids, 1)

kidsDescendants(T, ks, i) ==
    IF i > Len(ks) THEN <<>>
    ELSE <<ks[i]>> \o descendants(T, ks[i]) \o kidsDescendants(T, ks, i + 1)

\* node.findall(".//tag")
findall(T, e, tag) == SelectSeq(descendants(T, e), LAMBDA k : T[k].tag = tag)

\* self.tags(node, *tag_names), for a loop body that leaves the tree alone
RECURSIVE tags(_, _, _)
tags(T, e, names) ==
    IF names = <<>> THEN <<>>
    ELSE findall(T, e, Head(names)) \o tags(T, e, Tail(names))

\* the proper ancestors of an element
RECURSIVE ancestors(_, _)
ancestors(T, e) ==
    LET q == getparent(T, e)
    IN  IF q = 0 THEN {} ELSE {q} \cup ancestors(T, q)

\* lxml.html drop_tree(): the tail joins the previous sibling's tail, or the
\* parent's text, and the element leaves its parent
drop_tree(T, e) ==
    LET q == getparent(T, e)
        i == IndexOf(T[q].kids, e)
        T1 == IF T[e].tail = <<>> THEN T
              ELSE IF i = 1 THEN [T EXCEPT ![q].text = @ \o T[e].tail]
              ELSE [T EXCEPT ![T[q].kids[i - 1]].tail = @ \o T[e].tail]
    IN  [T1 EXCEPT ![q].kids = RemoveAt(@, i)]

\* for e in es: e.drop_tree()
RECURSIVE dropAll(_, _)
dropAll(T, es) == IF es = <<>> THEN T ELSE dropAll(drop_tree(T, Head(es)), Tail(es))

\* len of the attributes as serialized:  class="v" id="v"
attrsSerLen(T, e) ==
    (IF T[e].class = "" THEN 0 ELSE 9 + AttrLen(T[e].class))
    + (IF T[e].id = "" THEN 0 ELSE 6 + AttrLen(T[e].id))

\* len(_tostring(elem)) without the tail: <tag attrs/> for an element with
\* neither text nor children, <tag attrs>...</tag> otherwise
RECURSIVE serLen(_, _), kidsSerLen(_, _, _)
serLen(T, e) ==
    IF T[e].text = <<>> /\ T[e].kids = <<>>
    THEN TagLen(T[e].tag) + attrsSerLen(T, e) + 3
    ELSE 2 * TagLen(T[e].tag) + attrsSerLen(T, e) + 5
         + RawLen(T[e].text) + kidsSerLen(T, T[e].kids, 1)

kidsSerLen(T, ks, i) ==
    IF i > Len(ks) THEN 0
    ELSE serLen(T, ks[i]) + RawLen(T[ks[i]].tail) + kidsSerLen(T, ks, i + 1)

\* len(_tostring(elem)): tostring writes the tail too
tostringLen(T, e) == serLen(T, e) + RawLen(T[e].tail)

\* len(clean_attributes(html)): HTMLSTRIP matches no class and no id
\* attribute, the only attributes of the model, so nothing is stripped
clean_attributes(htmlLen) == htmlLen

\* len(self.get_clean_html())
get_clean_html(T, d) == clean_attributes(tostringLen(T, d))

\* text_length(elem)
text_length(T, e) == trimLen(text_content(T, e))

-----------------------------------------------------------------------------
(* Scoring helpers *)

\* Document.class_weight
class_weight(T, e) ==
    LET w(v) == (IF Search(negativeRe, v) THEN -25 ELSE 0)
                + (IF Search(positiveRe, v) THEN 25 ELSE 0)
    IN  (IF T[e].class = "" THEN 0 ELSE w(T[e].class))
        + (IF T[e].id = "" THEN 0 ELSE w(T[e].id))

\* Document.score_node: the score of the new Candidate
score_node(T, e) ==
    class_weight(T, e)
    + (CASE T[e].tag \in DIV_SCORES -> 5
         [] T[e].tag \in BLOCK_SCORES -> 3
         [] T[e].tag \in BAD_ELEM_SCORES -> -3
         [] T[e].tag \in STRUCTURE_SCORES -> -5
         [] OTHER -> 0)

\* total_length = text_length(elem) or 1
total_length(T, e) == LET tl == text_length(T, e) IN IF tl = 0 THEN 1 ELSE tl

\* link_length = sum(text_length(elem) for elem in elem.findall(".//a"))
link_length(T, e) ==
    LET as == findall(T, e, "a")
    IN  SumSeq([i \in 1..Len(as) |-> text_length(T, as[i])], 1)

\* Document.get_link_density
get_link_density(T, e) == float_truediv(link_length(T, e), total_length(T, e))

\* the float of a decimal literal n/d of the source, such as 0.2
literal(n, d) == float_truediv(n, d)

-----------------------------------------------------------------------------
(* summary(): the passes that precede scoring *)

\* summary() lines 137-140: script and style subtrees go, body is marked
strip_and_mark(T, d) ==
    LET T1 == dropAll(T, findall(T, d, "script"))
        T2 == dropAll(T1, findall(T1, d, "style"))
        bodies == Range(findall(T2, d, "body"))
    IN  [e \in Ids(T2) |->
            IF e \in bodies THEN [T2[e] EXCEPT !.id = "readabilityBody"] ELSE T2[e]]

\* the condition of remove_unlikely_candidates for one element
is_unlikely(T, e) ==
    LET both == T[e].class # "" /\ T[e].id # ""
        attrsLen == AttrLen(T[e].class) + AttrLen(T[e].id) + (IF both THEN 1 ELSE 0)
        found(regex) == Search(regex, T[e].class) \/ Search(regex, T[e].id)
    IN  /\ attrsLen >= 2
        /\ found(unlikelyCandidatesRe)
        /\ ~found(okMaybeItsACandidateRe)
        /\ T[e].tag \notin {"html", "body"}

RECURSIVE removeUnlikelyFrom(_, _)
removeUnlikelyFrom(T, es) ==
    IF es = <<>> THEN T
    ELSE removeUnlikelyFrom(IF is_unlikely(T, Head(es)) THEN drop_tree(T, Head(es)) ELSE T,
                            Tail(es))

\* Document.remove_unlikely_candidates
remove_unlikely_candidates(T, d) == removeUnlikelyFrom(T, descendants(T, d))

\* REGEXES["divToPElementsRe"].search(''.join(_tostring(e) for e in list(elem))):
\* the serialized children hold the opening tag of every descendant
divToPSearch(T, e) ==
    \E k \in Range(descendants(T, e)) : DivToPPrefixes(T[k].tag) # {}

\* the TODO of the source: any(e.tag in DIV_TO_P_ELEMS for e in list(elem))
hasDivToPChild(T, e) == \E k \in Range(T[e].kids) : T[k].tag \in DIV_TO_P_ELEMS

\* the first loop of transform_misused_divs_into_paragraphs, with a record
\* of each div it looked at
RECURSIVE retagFrom(_, _, _)
retagFrom(T, es, log) ==
    IF es = <<>> THEN [tree |-> T, log |-> log]
    ELSE LET e == Head(es)
             hit == divToPSearch(T, e)
         IN  retagFrom(IF hit THEN T ELSE [T EXCEPT ![e].tag = "p"],
                       Tail(es),
                       Append(log, [elem |-> e, child |-> hasDivToPChild(T, e),
                                    retagged |-> ~hit]))

\* the loop over the children of one div, from the last child to the first
RECURSIVE wrapTails(_, _, _, _)
wrapTails(T, e, ks, pos) ==
    IF pos = 0 THEN T
    ELSE LET child == ks[pos]
             new == Len(T) + 1
             T1 == IF HasNonSpace(T[child].tail)
                   THEN [Append(T, Elem("p", "", "", T[child].tail, <<>>, <<>>))
                            EXCEPT ![child].tail = <<>>,
                                   ![e].kids = InsertAt(@, pos + 1, new)]
                   ELSE T
             T2 == IF T1[child].tag = "br" THEN drop_tree(T1, child) ELSE T1
         IN  wrapTails(T2, e, ks, pos - 1)

\* the body of the second loop for one div
wrapDiv(T, e) ==
    LET new == Len(T) + 1
        T1 == IF HasNonSpace(T[e].text)
              THEN [Append(T, Elem("p", "", "", T[e].text, <<>>, <<>>))
                       EXCEPT ![e].text = <<>>, ![e].kids = <<new>> \o @]
              ELSE T
    IN  wrapTails(T1, e, T1[e].kids, Len(T1[e].kids))

RECURSIVE wrapFrom(_, _)
wrapFrom(T, es) == IF es = <<>> THEN T ELSE wrapFrom(wrapDiv(T, Head(es)), Tail(es))

\* Document.transform_misused_divs_into_paragraphs
transform_misused_divs_into_paragraphs(T, d) ==
    LET r == retagFrom(T, findall(T, d, "div"), <<>>)
    IN  [tree |-> wrapFrom(r.tree, findall(r.tree, d, "div")), log |-> r.log]

-----------------------------------------------------------------------------
(* Scoring, selection, assembly *)

\* the first loop of score_paragraphs: a paragraph adds
\* 1 + len(elem_text.split(",")) + min(elem_text_len / 100, 3) to its parent
\* and half of that to its grandparent, in floats and in this order
RECURSIVE accumulate(_, _, _, _, _)
accumulate(T, es, minlen, cands, ord) ==
    IF es = <<>> THEN [candidates |-> cands, ordered |-> ord]
    ELSE LET e == Head(es)
             parent_node == getparent(T, e)
             grand_parent_node == getparent(T, parent_node)
             elem_text == text_content(T, e)
             elem_text_len == trimLen(elem_text)
             ord1 == IF parent_node \in Range(ord) THEN ord ELSE Append(ord, parent_node)
             ord2 == IF grand_parent_node = 0 \/ grand_parent_node \in Range(ord1)
                     THEN ord1 ELSE Append(ord1, grand_parent_node)
             score == float_add(float(1 + (CountChar(elem_text, ",") + 1)),
                                float_min(float_truediv(elem_text_len, 100), float(3)))
             start(c) == IF c \in DOMAIN cands THEN cands[c] ELSE float(score_node(T, c))
             cands1 == [c \in Range(ord2) |->
                           IF c = parent_node THEN float_add(start(c), score)
                           ELSE IF c = grand_parent_node
                           THEN float_add(start(c), float_half(score))
                           ELSE start(c)]
         IN  IF parent_node = 0 \/ elem_text_len < minlen
             THEN accumulate(T, Tail(es), minlen, cands, ord)
             ELSE accumulate(T, Tail(es), minlen, cands1, ord2)

\* candidate.score *= 1 - density
scale(score, density) == float_mul(score, float_sub(float(1), density))

\* Document.score_paragraphs
score_paragraphs(T, d, minlen) ==
    LET acc == accumulate(T, tags(T, d, <<"p", "pre", "td">>), minlen, << >>, <<>>)
    IN  [candidates |-> [c \in Range(acc.ordered) |->
                            scale(acc.candidates[c], get_link_density(T, c))],
         ordered |-> acc.ordered]

\* Document.select_best_candidate: sorted() is stable, so of the candidates
\* with the highest score the one inserted first comes first; 0 for None
select_best_candidate(cands, ord) ==
    IF ord = <<>> THEN 0
    ELSE LET i == CHOOSE i \in 1..Len(ord) :
                      /\ \A j \in 1..Len(ord) : float_ge(cands[ord[i]], cands[ord[j]])
                      /\ \A j \in 1..(i - 1) : float_lt(cands[ord[j]], cands[ord[i]])
         IN  ord[i]

\* score >= max(10, best_candidate.score * 0.2)
reaches_threshold(score, bestScore) ==
    float_ge(score, float_max(float(10), float_mul(bestScore, literal(2, 10))))

\* a variant of paragraph_qualifies that takes any short text without links
paragraph_qualifies_without_period(node_content, link_density) ==
    LET node_length == RawLen(node_content)
    IN  \/ node_length > 80 /\ float_lt(link_density, literal(25, 100))
        \/ node_length <= 80 /\ link_density = float(0)

\* the test on a p sibling, lines 192-203 of get_article
paragraph_qualifies(node_content, link_density) ==
    LET node_length == RawLen(node_content)
    IN  \/ node_length > 80 /\ float_lt(link_density, literal(25, 100))
        \/ /\ node_length <= 80
           /\ link_density = float(0)
           /\ SearchPeriodRe(node_content)

\* the value of append for one sibling
append_sibling(T, cands, best_elem, sibling) ==
    \/ sibling = best_elem
    \/ sibling \in DOMAIN cands /\ reaches_threshold(cands[sibling], cands[best_elem])
    \/ /\ T[sibling].tag = "p"
       /\ paragraph_qualifies(T[sibling].text, get_link_density(T, sibling))

\* output.append(sibling): the sibling leaves its parent, if it has one, and
\* becomes the last child of output; its tail goes with it
move_to(T, output, sibling) ==
    LET q == getparent(T, sibling)
        T1 == IF q = 0 THEN T
              ELSE [T EXCEPT ![q].kids = RemoveAt(@, IndexOf(@, sibling))]
    IN  [T1 EXCEPT ![output].kids = Append(@, sibling)]

RECURSIVE assembleFrom(_, _, _, _, _, _)
assembleFrom(T, cands, best_elem, output, sibs, log) ==
    IF sibs = <<>> THEN [tree |-> T, log |-> log]
    ELSE LET sibling == Head(sibs)
             append == append_sibling(T, cands, best_elem, sibling)
         IN  assembleFrom(IF append THEN move_to(T, output, sibling) ELSE T,
                          cands, best_elem, output, Tail(sibs),
                          Append(log, [elem |-> sibling, append |-> append]))

\* Document.get_article.  fragment_fromstring("<div/>") parses a document
\* html > body > div and returns the div where it is, below that body: the
\* three are the last records of the arena
get_article(T, cands, best_elem) ==
    LET output == Len(T) + 3
        T1 == T \o <<Elem("html", "", "", <<>>, <<>>, <<Len(T) + 2>>),
                      Elem("body", "", "", <<>>, <<>>, <<Len(T) + 3>>),
                      Elem("div", "", "", <<>>, <<>>, <<>>)>>
        parent == getparent(T, best_elem)
        siblings == IF parent # 0 THEN T[parent].kids ELSE <<best_elem>>
        r == assembleFrom(T1, cands, best_elem, output, siblings, <<>>)
    IN  [tree |-> r.tree, output |-> output, log |-> r.log]

-----------------------------------------------------------------------------
(* sanitize *)

\* the test on one heading, line 351
bad_header(T, e) ==
    class_weight(T, e) < 0 \/ float_lt(literal(33, 100), get_link_density(T, e))

RECURSIVE dropBadHeaders(_, _)
dropBadHeaders(T, es) ==
    IF es = <<>> THEN T
    ELSE dropBadHeaders(IF bad_header(T, Head(es)) THEN drop_tree(T, Head(es)) ELSE T,
                        Tail(es))

\* for header in self.tags(node, "h1", ...): tags is a generator, so the
\* elements of a tag name are looked up when the ones before it are done
RECURSIVE sanitizeHeaders(_, _, _)
sanitizeHeaders(T, node, names) ==
    IF names = <<>> THEN T
    ELSE sanitizeHeaders(dropBadHeaders(T, findall(T, node, Head(names))), node, Tail(names))

RECURSIVE dropTags(_, _, _)
dropTags(T, node, names) ==
    IF names = <<>> THEN T
    ELSE dropTags(dropAll(T, findall(T, node, Head(names))), node, Tail(names))

\* sanitize() lines 350-361.  No element of the model has a src attribute,
\* so every iframe is dropped
sanitize_head(T, node) ==
    LET T1 == sanitizeHeaders(T, node, <<"h1", "h2", "h3", "h4", "h5", "h6">>)
        T2 == dropTags(T1, node, <<"form", "textarea">>)
    IN  dropTags(T2, node, <<"iframe">>)

\* the tag names sanitize() hands to reverse_tags, in its order
CleanTags == <<"table", "ul", "div", "aside", "header", "footer", "section">>

\* a variant of reverse_findall that forgets to reverse
forward_findall(T, node, tag) == findall(T, node, tag)

\* reversed(node.findall(".//tag")) of reverse_tags
reverse_findall(T, node, tag) == Reverse(findall(T, node, tag))

\* the next position of the generator reverse_tags: the tag names whose
\* elements are all yielded are left behind, and the elements of the next
\* tag name are looked up in the tree as it is then
RECURSIVE advance(_, _, _, _)
advance(T, node, idx, q) ==
    IF q # <<>> \/ idx >= Len(CleanTags) THEN [idx |-> idx, queue |-> q]
    ELSE advance(T, node, idx + 1, reverse_findall(T, node, CleanTags[idx + 1]))

\* a variant of too_many_images with 2 images a paragraph
too_many_images_doubled(p, img) == p # 0 /\ img > 1 + 2 * p

\* counts["p"] and counts["img"] > 1 + counts["p"] * 1.3
too_many_images(p, img) ==
    p # 0 /\ float_lt(float_add(float(1), float_mul(float(p), literal(13, 10))),
                      float(img))

\* lines 446-459: the text lengths of the first non-empty following sibling
\* and of the nearest non-empty preceding sibling
sibling_lengths(T, e) ==
    LET q == getparent(T, e)
        ks == T[q].kids
        i == IndexOf(ks, e)
        after == {j \in (i + 1)..Len(ks) : text_length(T, ks[j]) # 0}
        before == {j \in 1..(i - 1) : text_length(T, ks[j]) # 0}
        first(S) == CHOOSE j \in S : \A k \in S : j <= k
        last(S) == CHOOSE j \in S : \A k \in S : j >= k
    IN  (IF after = {} THEN <<>> ELSE <<text_length(T, ks[first(after)])>>)
        \o (IF before = {} THEN <<>> ELSE <<text_length(T, ks[last(before)])>>)

\* line 460: siblings and sum(siblings) > 1000
keeps_empty(siblings) == siblings # <<>> /\ SumSeq(siblings, 1) > 1000

\* a variant of allow_listed that protects the table descendants only
allow_listed_tables(T, e) == Range(findall(T, e, "table"))

\* lines 462-463: the descendants that join allowed
allow_listed(T, e) == Range(tags(T, e, <<"table", "ul", "div", "section">>))

\* what the body of the loop of sanitize() decides for one element:
\* the rule that matched, and whether the element goes
sanitize_decision(T, cands, e, minlen) ==
    LET weight == class_weight(T, e)
        score == IF e \in DOMAIN cands THEN cands[e] ELSE float(0)
        count(kind) == Len(findall(T, e, kind))
        p == count("p")
        img == count("img")
        li == count("li") - 100
        input == count("input")  \* no element of the model has type="hidden"
        embed == count("embed")
        content_length == text_length(T, e)
        density == get_link_density(T, e)
        siblings == sibling_lengths(T, e)
        rule ==
            IF float_lt(float_add(float(weight), score), float(0))
            THEN "negative score"
            ELSE IF CountChar(text_content(T, e), ",") >= 10 THEN "prose"
            ELSE IF too_many_images(p, img) THEN "too many images"
            ELSE IF li > p /\ T[e].tag \notin {"ol", "ul"} THEN "more <li>s than <p>s"
            ELSE IF float_lt(float_truediv(p, 3), float(input))
                 THEN "less than 3x <p>s than <input>s"
            ELSE IF content_length < minlen /\ img = 0
                 THEN "too short content length without a single image"
            ELSE IF content_length < minlen /\ img > 2
                 THEN "too short content length and too many images"
            ELSE IF weight < 25 /\ float_lt(literal(2, 10), density) THEN "too many links"
            ELSE IF weight >= 25 /\ float_lt(literal(5, 10), density) THEN "too many links"
            ELSE IF (embed = 1 /\ content_length < 75) \/ embed > 1 THEN "embeds"
            ELSE IF content_length = 0 THEN "no content"
            ELSE "none"
        override == rule = "no content" /\ keeps_empty(siblings)
    IN  [elem |-> e, tag |-> T[e].tag, weight |-> weight,
         filtered |-> rule \notin {"negative score", "prose"},
         p |-> p, img |-> img, content_length |-> content_length,
         siblings |-> SumSeq(siblings, 1),
         rule |-> rule, override |-> override,
         removed |-> rule \notin {"prose", "none"} /\ ~override,
         allow |-> IF override THEN allow_listed(T, e) ELSE {}]

-----------------------------------------------------------------------------
(* summary(): the loop, one action per step *)

\* a variant of fallback_article that never looks for the body
fallback_whole_document(T, d) == d

\* lines 158-160: self.doc.find("body"), the first child of the root that is
\* a body, or self.doc
fallback_article(T, d) ==
    LET bodies == SelectSeq(T[d].kids, LAMBDA k : T[k].tag = "body")
    IN  IF bodies # <<>> THEN Head(bodies) ELSE d

\* a variant of too_short that forgets to look at ruthless
too_short_in_any_state(r, article_length, retry) == ~(article_length >= retry)

\* line 164: ruthless is True and not article_length >= self.retry_length
too_short(r, article_length, retry) == r /\ ~(article_length >= retry)

\* lines 137-140
StripAndMark ==
    /\ pc = "loop"
    /\ tree' = strip_and_mark(tree, doc)
    /\ passes' = passes + 1
    /\ pc' = "prune"
    /\ steps' = steps + 1
    /\ UNCHANGED <<doc, min_text_length, retry_length, ruthless, candidates, ordered,
                   best, article, allowed, tagIdx, queue, cleanedLen, origIds,
                   retagLog, densityLog, siblingLog, evalLog, firstFragment>>

\* lines 141-142, ruthless
RemoveUnlikely ==
    /\ pc = "prune"
    /\ ruthless
    /\ tree' = remove_unlikely_candidates(tree, doc)
    /\ pc' = "normalize"
    /\ steps' = steps + 1
    /\ UNCHANGED <<doc, min_text_length, retry_length, ruthless, candidates, ordered,
                   best, article, allowed, tagIdx, queue, cleanedLen, passes, origIds,
                   retagLog, densityLog, siblingLog, evalLog, firstFragment>>

\* lines 141-142, not ruthless
KeepUnlikely ==
    /\ pc = "prune"
    /\ ~ruthless
    /\ pc' = "normalize"
    /\ steps' = steps + 1
    /\ UNCHANGED <<tree, doc, min_text_length, retry_length, ruthless, candidates,
                   ordered, best, article, allowed, tagIdx, queue, cleanedLen, passes,
                   origIds, retagLog, densityLog, siblingLog, evalLog, firstFragment>>

\* line 143
TransformDivs ==
    /\ pc = "normalize"
    /\ LET r == transform_misused_divs_into_paragraphs(tree, doc)
       IN  tree' = r.tree /\ retagLog' = r.log
    /\ pc' = "score"
    /\ steps' = steps + 1
    /\ UNCHANGED <<doc, min_text_length, retry_length, ruthless, candidates, ordered,
                   best, article, allowed, tagIdx, queue, cleanedLen, passes, origIds,
                   densityLog, siblingLog, evalLog, firstFragment>>

\* line 144
ScoreParagraphs ==
    /\ pc = "score"
    /\ LET r == score_paragraphs(tree, doc, min_text_length)
       IN  /\ candidates' = r.candidates
           /\ ordered' = r.ordered
           /\ densityLog' = [c \in Range(r.ordered) |->
                                [link |-> link_length(tree, c),
                                 total |-> total_length(tree, c),
                                 density |-> get_link_density(tree, c)]]
    /\ pc' = "select"
    /\ steps' = steps + 1
    /\ UNCHANGED <<tree, doc, min_text_length, retry_length, ruthless, best, article,
                   allowed, tagIdx, queue, cleanedLen, passes, origIds, retagLog,
                   siblingLog, evalLog, firstFragment>>

\* line 146
SelectBest ==
    /\ pc = "select"
    /\ best' = select_best_candidate(candidates, ordered)
    /\ pc' = "article"
    /\ steps' = steps + 1
    /\ UNCHANGED <<tree, doc, min_text_length, retry_length, ruthless, candidates,
                   ordered, article, allowed, tagIdx, queue, cleanedLen, passes, origIds,
                   retagLog, densityLog, siblingLog, evalLog, firstFragment>>

\* lines 148-149
Assemble ==
    /\ pc = "article"
    /\ best # 0
    /\ LET r == get_article(tree, candidates, best)
       IN  tree' = r.tree /\ article' = r.output /\ siblingLog' = r.log
    /\ pc' = "sanitize"
    /\ steps' = steps + 1
    /\ UNCHANGED <<doc, min_text_length, retry_length, ruthless, candidates, ordered,
                   best, allowed, tagIdx, queue, cleanedLen, passes, origIds, retagLog,
                   densityLog, evalLog, firstFragment>>

\* lines 151-155
RetryNoCandidate ==
    /\ pc = "article"
    /\ best = 0
    /\ ruthless
    /\ ruthless' = FALSE
    /\ pc' = "loop"
    /\ steps' = steps + 1
    /\ UNCHANGED <<tree, doc, min_text_length, retry_length, candidates, ordered, best,
                   article, allowed, tagIdx, queue, cleanedLen, passes, origIds,
                   retagLog, densityLog, siblingLog, evalLog, firstFragment>>

\* lines 156-160
FallBack ==
    /\ pc = "article"
    /\ best = 0
    /\ ~ruthless
    /\ article' = fallback_article(tree, doc)
    /\ siblingLog' = <<>>
    /\ pc' = "sanitize"
    /\ steps' = steps + 1
    /\ UNCHANGED <<tree, doc, min_text_length, retry_length, ruthless, candidates,
                   ordered, best, allowed, tagIdx, queue, cleanedLen, passes, origIds,
                   retagLog, densityLog, evalLog, firstFragment>>

\* sanitize(), lines 350-363
SanitizeHead ==
    /\ pc = "sanitize"
    /\ tree' = sanitize_head(tree, article)
    /\ allowed' = {}
    /\ tagIdx' = 0
    /\ queue' = <<>>
    /\ evalLog' = <<>>
    /\ pc' = "clean"
    /\ steps' = steps + 1
    /\ UNCHANGED <<doc, min_text_length, retry_length, ruthless, candidates, ordered,
                   best, article, cleanedLen, passes, origIds, retagLog, densityLog,
                   siblingLog, firstFragment>>

\* sanitize(), one turn of the loop of lines 365-473
SanitizeElem ==
    /\ pc = "clean"
    /\ LET next == advance(tree, article, tagIdx, queue)
       IN  /\ next.queue # <<>>
           /\ LET elem == Head(next.queue)
                  dec == sanitize_decision(tree, candidates, elem, min_text_length)
                  inFragment == descendants(tree, article)
                  place == [pos |-> IF elem \in Range(inFragment)
                                    THEN IndexOf(inFragment, elem) ELSE 0,
                            above |-> ancestors(tree, elem),
                            inside |-> Range(descendants(tree, elem))]
              IN  IF elem \in allowed
                  THEN /\ evalLog' = Append(evalLog,
                                            [skipped |-> TRUE, at |-> place, dec |-> dec])
                       /\ UNCHANGED <<tree, allowed>>
                  ELSE /\ evalLog' = Append(evalLog,
                                            [skipped |-> FALSE, at |-> place, dec |-> dec])
                       /\ tree' = IF dec.removed THEN drop_tree(tree, elem) ELSE tree
                       /\ allowed' = allowed \cup dec.allow
           /\ tagIdx' = next.idx
           /\ queue' = Tail(next.queue)
    /\ steps' = steps + 1
    /\ UNCHANGED <<doc, min_text_length, retry_length, pc, ruthless, candidates,
                   ordered, best, article, cleanedLen, passes, origIds, retagLog,
                   densityLog, siblingLog, firstFragment>>

\* a variant of SanitizeFinish that leaves self.doc alone
SanitizeFinishKeepsDoc ==
    /\ pc = "clean"
    /\ advance(tree, article, tagIdx, queue).queue = <<>>
    /\ cleanedLen' = get_clean_html(tree, article)
    /\ firstFragment' = IF ruthless
                        THEN {article} \cup Range(descendants(tree, article))
                        ELSE firstFragment
    /\ pc' = "gate"
    /\ steps' = steps + 1
    /\ UNCHANGED <<tree, doc, min_text_length, retry_length, ruthless, candidates,
                   ordered, best, article, allowed, tagIdx, queue, passes, origIds,
                   retagLog, densityLog, siblingLog, evalLog>>

\* sanitize(), lines 475-476, and line 163
SanitizeFinish ==
    /\ pc = "clean"
    /\ advance(tree, article, tagIdx, queue).queue = <<>>
    /\ doc' = article
    /\ cleanedLen' = get_clean_html(tree, article)
    /\ firstFragment' = IF ruthless
                        THEN {article} \cup Range(descendants(tree, article))
                        ELSE firstFragment
    /\ pc' = "gate"
    /\ steps' = steps + 1
    /\ UNCHANGED <<tree, min_text_length, retry_length, ruthless, candidates, ordered,
                   best, article, allowed, tagIdx, queue, passes, origIds, retagLog,
                   densityLog, siblingLog, evalLog>>

\* a variant of RetryShort that leaves ruthless alone
RetryShortStaysRuthless ==
    /\ pc = "gate"
    /\ too_short(ruthless, cleanedLen, retry_length)
    /\ pc' = "loop"
    /\ steps' = steps + 1
    /\ UNCHANGED <<tree, doc, min_text_length, retry_length, ruthless, candidates,
                   ordered, best, article, allowed, tagIdx, queue, cleanedLen, passes,
                   origIds, retagLog, densityLog, siblingLog, evalLog, firstFragment>>

\* lines 164-167
RetryShort ==
    /\ pc = "gate"
    /\ too_short(ruthless, cleanedLen, retry_length)
    /\ ruthless' = FALSE
    /\ pc' = "loop"
    /\ steps' = steps + 1
    /\ UNCHANGED <<tree, doc, min_text_length, retry_length, candidates, ordered, best,
                   article, allowed, tagIdx, queue, cleanedLen, passes, origIds,
                   retagLog, densityLog, siblingLog, evalLog, firstFragment>>

\* line 168
Return ==
    /\ pc = "gate"
    /\ ~too_short(ruthless, cleanedLen, retry_length)
    /\ pc' = "done"
    /\ steps' = steps + 1
    /\ UNCHANGED <<tree, doc, min_text_length, retry_length, ruthless, candidates,
                   ordered, best, article, allowed, tagIdx, queue, cleanedLen, passes,
                   origIds, retagLog, densityLog, siblingLog, evalLog, firstFragment>>

Next ==
    \/ StripAndMark
    \/ RemoveUnlikely
    \/ KeepUnlikely
    \/ TransformDivs
    \/ ScoreParagraphs
    \/ SelectBest
    \/ Assemble
    \/ RetryNoCandidate
    \/ FallBack
    \/ SanitizeHead
    \/ SanitizeElem
    \/ SanitizeFinish
    \/ RetryShort
    \/ Return

-----------------------------------------------------------------------------
(* The documents given to Document() *)

MaxBlocks == 2

DefaultMinTextLength == 25

DefaultRetryLength == 250

ShortRetryLength == 60

\* an element without attributes, and one with a class
E(tag, text, tail, kids) == Elem(tag, "", "", text, tail, kids)

EC(tag, class, kids) == Elem(tag, class, "", <<>>, <<>>, kids)

\* the arena of a nested element: records in document order, the root first
RECURSIVE addElem(_, _), addKids(_, _, _, _)
addElem(T, t) ==
    addKids(Append(T, [t EXCEPT !.kids = <<>>]), Len(T) + 1, t.kids, 1)

addKids(T, me, ks, i) ==
    IF i > Len(ks) THEN T
    ELSE LET kid == Len(T) + 1
         IN  addKids([addElem(T, ks[i]) EXCEPT ![me].kids = Append(@, kid)], me, ks, i + 1)

SeqsUpTo(S, n) == UNION {[1..k -> S] : k \in 0..n}

\* <html><body><div>...</div></body></html> and <div>...</div>
Page(kids) == E("html", <<>>, <<>>, <<E("body", <<>>, <<>>, <<E("div", <<>>, <<>>, kids)>>)>>)

Bare(kids) == E("div", <<>>, <<>>, kids)

Pages(blocks) ==
    {Page(kids) : kids \in SeqsUpTo(blocks, MaxBlocks)}
    \cup {Bare(kids) : kids \in SeqsUpTo(blocks, MaxBlocks)}

\* texts: n letters; a sentence of n + 3 characters with one comma
Letters(n) == <<Run("x", n)>>

Sentence(n) == <<Run("x", n), Run(",", 1), Run(" ", 1), Run(".", 1)>>

\* a text of 300 characters with 12 commas
Prose == <<Run("x", 200), Run(",", 12), Run(" ", 1), Run("x", 86), Run(".", 1)>>

MainBlocks ==
    {E("div", <<>>, <<>>, <<E("p", Prose, <<>>, <<>>)>>),
     E("div", <<>>, <<>>, <<E("p", Sentence(37), <<>>, <<>>)>>),
     EC("div", "sidebar", <<E("p", Prose, <<>>, <<>>)>>),
     E("p", Letters(2), Letters(3), <<>>),
     E("script", Letters(5), Sentence(30), <<>>)}

\* a text of 300 characters with 60 commas
HeavyProse == <<Run("x", 200), Run(",", 60), Run(" ", 1), Run("x", 38), Run(".", 1)>>

\* a text of 200 characters with 6 commas
LightProse == <<Run("x", 100), Run(",", 6), Run(" ", 1), Run("x", 92), Run(".", 1)>>

\* a text of 1200 characters with 3 commas
Wall == <<Run("x", 600), Run(",", 3), Run(" ", 1), Run("x", 595), Run(".", 1)>>

\* the siblings get_article chooses among
SiblingBlocks ==
    {E("div", <<>>, <<>>, <<E("p", HeavyProse, <<>>, <<>>)>>),
     E("div", <<>>, <<>>, <<E("p", LightProse, <<>>, <<>>)>>),
     E("div", <<>>, <<>>, <<E("p", Sentence(37), <<>>, <<>>)>>),
     E("p", Letters(81), <<>>, <<>>),
     E("p", Letters(100), <<>>, <<E("a", Letters(60), <<>>, <<>>)>>),
     E("p", <<Run("x", 2), Run(".", 1)>>, <<>>, <<>>),
     E("p", <<Run("x", 80)>>, <<>>, <<>>),
     E("p", <<Run("x", 2), Run(".", 1), Run("\n", 1)>>, <<>>, <<>>),
     E("p", <<Run("x", 2), Run(".", 1), Run(" ", 1), Run("x", 2)>>, <<>>,
       <<E("a", Letters(2), <<>>, <<>>)>>)}

\* the elements sanitize() looks at
CleanBlocks ==
    {E("p", Wall, <<>>, <<>>),
     E("table", <<>>, <<>>, <<E("div", <<>>, <<>>, <<E("img", <<>>, <<>>, <<>>)>>)>>),
     E("section", <<>>, <<>>, <<>>),
     E("table", <<>>, <<>>,
       <<E("div", <<>>, <<>>, <<E("img", <<>>, <<>>, <<>>), E("img", <<>>, <<>>, <<>>)>>),
         E("span", Letters(30), <<>>, <<>>)>>),
     E("section", <<>>, <<>>,
       <<E("p", Sentence(37), <<>>, <<>>), E("img", <<>>, <<>>, <<>>),
         E("img", <<>>, <<>>, <<>>), E("img", <<>>, <<>>, <<>>)>>),
     E("div", <<>>, <<>>,
       <<E("div", <<>>, <<>>,
           <<E("img", <<>>, <<>>, <<>>), E("img", <<>>, <<>>, <<>>),
             E("img", <<>>, <<>>, <<>>)>>)>>),
     EC("div", "sidebar", <<E("p", Sentence(37), <<>>, <<>>)>>)}

\* the elements the normalizer and the scoring look at
ScoreBlocks ==
    {E("div", <<>>, <<>>,
       <<E("p", Sentence(37), <<>>, <<>>),
         E("a", Letters(5), <<>>,
           <<E("span", <<>>, <<>>, <<E("a", Letters(60), <<>>, <<>>)>>)>>)>>),
     E("div", <<>>, <<>>,
       <<E("p", HeavyProse, <<>>, <<>>), E("a", Letters(60), <<>>, <<>>)>>),
     E("div", Letters(30), <<>>, <<E("span", <<>>, <<>>, <<E("img", <<>>, <<>>, <<>>)>>)>>),
     E("div", <<>>, <<>>, <<E("abbr", Letters(30), Letters(3), <<>>)>>),
     E("div", Letters(30), <<>>, <<E("span", Letters(3), <<>>, <<>>), E("br", <<>>, Letters(4), <<>>)>>),
     E("div", <<>>, <<>>, <<E("section", <<>>, <<>>, <<E("p", Sentence(37), <<>>, <<>>)>>)>>)}

RetryLengths == {DefaultRetryLength, ShortRetryLength}

InitWith(documents) ==
    /\ \E t \in documents : tree = addElem(<<>>, t)
    /\ doc = 1
    /\ min_text_length = DefaultMinTextLength
    /\ retry_length \in RetryLengths
    /\ pc = "loop"
    /\ ruthless = TRUE
    /\ candidates = << >>
    /\ ordered = <<>>
    /\ best = 0
    /\ article = 0
    /\ allowed = {}
    /\ tagIdx = 0
    /\ queue = <<>>
    /\ cleanedLen = 0
    /\ passes = 0
    /\ origIds = Ids(tree)
    /\ retagLog = <<>>
    /\ densityLog = << >>
    /\ siblingLog = <<>>
    /\ evalLog = <<>>
    /\ firstFragment = {}
    /\ steps = 0

Init == InitWith(Pages(MainBlocks))

Spec == Init /\ [][Next]_vars

InitAssemble == InitWith(Pages(SiblingBlocks))

SpecAssemble == InitAssemble /\ [][Next]_vars

InitSanitize == InitWith(Pages(CleanBlocks))

SpecSanitize == InitSanitize /\ [][Next]_vars

InitScore == InitWith(Pages(ScoreBlocks))

SpecScore == InitScore /\ [][Next]_vars

\* a step of a call that has not returned
Tick == pc # "done" /\ steps' = steps + 1

\* summary() is one sequential call: as long as it has not returned, it
\* takes its next step
FairSpec == Spec /\ WF_steps(Tick)

-----------------------------------------------------------------------------
(* The retry loop *)

\* the element and its descendants
Elements(T, e) == {e} \cup Range(descendants(T, e))

\* C1: summary() terminates, and it begins its loop at most twice: once
\* ruthless and, if that pass is rejected, once lenient; a lenient pass is
\* never followed by another pass
C1_TwoPasses ==
    /\ [](passes <= 2 /\ (passes = 2 => ~ruthless))
    /\ [][~ruthless /\ pc # "loop" => pc' # "loop"]_vars
    /\ <>(pc = "done")

\* a ruthless pass was rejected and the lenient pass has returned
C1_Witness == pc = "done" /\ passes = 2 /\ ~ruthless

\* C2: at the length gate a ruthless result shorter than retry_length sends
\* summary() back to the top of its loop in lenient state; a ruthless result
\* of at least retry_length and every lenient result, whatever its length,
\* is returned as it is
C2_LengthGate ==
    [][pc = "gate" =>
          IF ruthless /\ cleanedLen < retry_length
          THEN pc' = "loop" /\ ~ruthless' /\ tree' = tree /\ doc' = doc
          ELSE pc' = "done" /\ cleanedLen' = cleanedLen /\ tree' = tree /\ doc' = doc
               /\ ruthless' = ruthless]_vars

\* a lenient result shorter than retry_length was returned
C2_Witness == pc = "done" /\ ~ruthless /\ cleanedLen < retry_length /\ firstFragment # {}

\* C3 as stated: whenever the selector finds no best candidate, in ruthless
\* as in lenient state, the iteration goes on to sanitize the body element
\* (or the whole document)
C3_AlwaysFallsBack ==
    [][pc = "article" /\ best = 0 =>
          pc' = "sanitize" /\ article' = fallback_article(tree, doc)]_vars

\* C3, amended: with no best candidate a lenient iteration goes on to
\* sanitize the body element (the whole document if the root has no body
\* child); a ruthless iteration sanitizes nothing, turns lenient and starts
\* the loop again on the same tree
C3_FallsBackWhenLenient ==
    [][pc = "article" /\ best = 0 =>
          IF ruthless
          THEN pc' = "loop" /\ ~ruthless' /\ tree' = tree /\ doc' = doc
               /\ cleanedLen' = cleanedLen
          ELSE pc' = "sanitize" /\ tree' = tree
               /\ article' = (IF \E k \in Range(tree[doc].kids) : tree[k].tag = "body"
                              THEN CHOOSE k \in Range(tree[doc].kids) : tree[k].tag = "body"
                              ELSE doc)]_vars

\* a lenient iteration without a candidate is sanitizing the body element
C3_Witness ==
    /\ pc = "clean" /\ best = 0 /\ ~ruthless
    /\ article # doc /\ tree[article].tag = "body"

\* C10: after a ruthless pass whose sanitized fragment was rejected, the
\* document is that fragment: every element of the original document that
\* is in self.doc, and in the end in the result, was in that fragment.
\* After a ruthless pass that found no candidate, the lenient pass works on
\* the original root
C10_RetryOnFragment ==
    /\ (~ruthless /\ firstFragment # {}) =>
           (Elements(tree, doc) \cup (IF pc = "done" THEN Elements(tree, article) ELSE {}))
               \cap origIds \subseteq firstFragment
    /\ (~ruthless /\ firstFragment = {} /\ pc \notin {"gate", "done"}) => doc = 1

\* the lenient pass has returned a result, and a paragraph of the original
\* document long enough to be scored was not in the fragment it started from
C10_Witness ==
    /\ pc = "done" /\ ~ruthless /\ firstFragment # {}
    /\ Elements(tree, article) \cap origIds # {}
    /\ \E e \in origIds \ firstFragment :
           tree[e].tag = "p" /\ text_length(tree, e) >= min_text_length

-----------------------------------------------------------------------------
(* Article assembly *)

\* a period followed by a space or by the end of the text
PeriodThenSpaceOrEnd(s) ==
    \E i \in 1..Len(s) : s[i].c = "." /\ (i = Len(s) \/ s[i + 1].c = " ")

\* the same, or a period followed by one newline that ends the text
PeriodThenSpaceEndOrLastNewline(s) ==
    \/ PeriodThenSpaceOrEnd(s)
    \/ Len(s) >= 2 /\ s[Len(s) - 1].c = "." /\ s[Len(s)] = Run("\n", 1)

\* k times the value of the float x, not rounded
Times(x, k) == [x EXCEPT !.m = Arith("norm", Arith("mulsmall", @, k, 0), 0, 0)]

\* conditions (a), (b), (c) of the claim for a child e of the best
\* candidate's parent, for a given reading of "ends a sentence"
SiblingChosen(e, ends_sentence(_)) ==
    \/ e = best
    \/ /\ e \in DOMAIN candidates
       /\ float_ge(candidates[e], float(10))
       /\ float_ge(Times(candidates[e], 5), candidates[best])
    \/ /\ tree[e].tag = "p"
       /\ LET length == RawLen(tree[e].text)
          IN  \/ length > 80 /\ 4 * link_length(tree, e) < total_length(tree, e)
              \/ length <= 80 /\ link_length(tree, e) = 0
                 /\ ends_sentence(tree[e].text)

\* the new root holds, in their original order, the siblings for which
\* chosen holds, and no other
AssembledBy(chosen(_)) ==
    LET sibs == [i \in 1..Len(siblingLog) |-> siblingLog[i].elem]
    IN  /\ tree[article].tag = "div"
        /\ tree[article].kids = SelectSeq(sibs, chosen)
        /\ \A i \in 1..Len(siblingLog) : siblingLog[i].append <=> chosen(sibs[i])
        /\ \A e \in Range(sibs) : (getparent(tree, e) = article) <=> chosen(e)
        /\ best = doc => tree[article].kids = <<best>>

\* C4 as stated: get_article moves into the new root exactly the children of
\* the best candidate's parent that are the best candidate, or have a
\* Candidate of at least max(10, 0.2 * best score), or are a p with direct
\* text over 80 and link density below 0.25, or a p with direct text of at
\* most 80, link density 0 and a period followed by a space or by the end of
\* the text; in their original order; a best candidate without parent alone
C4_AssemblyAsStated ==
    (pc = "sanitize" /\ best # 0) =>
        AssembledBy(LAMBDA e : SiblingChosen(e, PeriodThenSpaceOrEnd))

\* C4, amended: the same, where the short p may also end in a period
\* followed by a single newline that ends its text
C4_Assembly ==
    (pc = "sanitize" /\ best # 0) =>
        AssembledBy(LAMBDA e : SiblingChosen(e, PeriodThenSpaceEndOrLastNewline))

\* the new root holds the best candidate and a second scored sibling, in
\* their original order
C4_Witness ==
    /\ pc = "sanitize" /\ best # 0 /\ best # doc
    /\ Len(tree[article].kids) = 2
    /\ \E e \in Range(tree[article].kids) : e # best /\ e \in DOMAIN candidates

-----------------------------------------------------------------------------
(* Sanitizer *)

\* the turns of the loop of sanitize() that evaluated their element
Evaluated == {i \in 1..Len(evalLog) : ~evalLog[i].skipped}

\* the place of a tag name in table, ul, div, aside, header, footer, section
CleanTagRank(tag) ==
    LET order == <<"table", "ul", "div", "aside", "header", "footer", "section">>
    IN  CHOOSE k \in 1..Len(order) : order[k] = tag

\* C5 as stated: an element evaluated with text length 0 whose neighbouring
\* non-empty siblings sum to more than 1000 is not removed, and its
\* table/ul/div/section descendants are in the allow-set
C5_EmptyKeptAsStated ==
    \A i \in Evaluated :
        (evalLog[i].dec.content_length = 0 /\ evalLog[i].dec.siblings > 1000) =>
            /\ ~evalLog[i].dec.removed
            /\ {k \in evalLog[i].at.inside :
                   tree[k].tag \in {"table", "ul", "div", "section"}} \subseteq allowed

\* C5, amended: an element that no earlier rule of the sanitizer removes
\* and that reaches the 'no content' rule with neighbouring non-empty
\* siblings summing to more than 1000 is not removed by that evaluation;
\* its table/ul/div/section descendants join the allow-set and are skipped,
\* not evaluated, when the loop comes to them later in the same pass
C5_EmptyKept ==
    \A i \in Evaluated :
        (evalLog[i].dec.rule = "no content" /\ evalLog[i].dec.siblings > 1000) =>
            LET protected == {k \in evalLog[i].at.inside :
                                 tree[k].tag \in {"table", "ul", "div", "section"}}
            IN  /\ ~evalLog[i].dec.removed
                /\ protected \subseteq allowed
                /\ \A j \in (i + 1)..Len(evalLog) :
                       evalLog[j].dec.elem \in protected => evalLog[j].skipped

\* an empty table next to 1200 characters was kept, and the div inside it
\* was skipped later
C5_Witness ==
    \E i \in Evaluated : \E j \in (i + 1)..Len(evalLog) :
        /\ evalLog[i].dec.rule = "no content" /\ evalLog[i].dec.siblings > 1000
        /\ evalLog[j].skipped /\ evalLog[j].dec.elem \in evalLog[i].at.inside
        /\ evalLog[j].dec.elem \in Elements(tree, article)

\* C7 as stated: an evaluated element with weight + score >= 0 and fewer
\* than 10 commas whose img count exceeds 1 + 1.3 * (p count) is removed,
\* whatever the p count
C7_TooManyImagesAsStated ==
    \A i \in Evaluated :
        (evalLog[i].dec.filtered
         /\ 10 * evalLog[i].dec.img > 10 + 13 * evalLog[i].dec.p) =>
            evalLog[i].dec.removed

\* C7, amended: the same for an element with at least one p descendant
C7_TooManyImages ==
    \A i \in Evaluated :
        (evalLog[i].dec.filtered /\ evalLog[i].dec.p >= 1
         /\ 10 * evalLog[i].dec.img > 10 + 13 * evalLog[i].dec.p) =>
            /\ evalLog[i].dec.removed /\ evalLog[i].dec.rule = "too many images"
            /\ (i = Len(evalLog) => evalLog[i].dec.elem \notin Elements(tree, article))

\* a section with one p and three img was removed
C7_Witness ==
    \E i \in Evaluated :
        /\ evalLog[i].dec.p = 1 /\ evalLog[i].dec.img = 3
        /\ evalLog[i].dec.rule = "too many images"
        /\ evalLog[i].dec.elem \notin Elements(tree, article)

\* C8 as stated: no element is evaluated after one of its ancestors was
\* evaluated
C8_DescendantsFirstAsStated ==
    \A j \in Evaluated : \A i \in Evaluated :
        i < j => evalLog[i].dec.elem \notin evalLog[j].at.above

\* C8, amended: the elements are taken tag name by tag name, in the order
\* table, ul, div, aside, header, footer, section, and within a tag name in
\* reverse document order: an element is taken before its ancestors of the
\* same tag name and of the tag names later in that order, and after its
\* ancestors of the tag names earlier in that order
C8_ReversePerTag ==
    \A j \in 1..Len(evalLog) : \A i \in 1..(j - 1) :
        LET a == evalLog[i]
            b == evalLog[j]
        IN  /\ CleanTagRank(a.dec.tag) <= CleanTagRank(b.dec.tag)
            /\ a.dec.tag = b.dec.tag =>
                   a.at.pos > b.at.pos /\ a.dec.elem \notin b.at.above

\* a div was taken before the div around it, and a table before a div
\* inside it
C8_Witness ==
    /\ \E j \in 1..Len(evalLog) : \E i \in 1..(j - 1) :
           /\ evalLog[i].dec.tag = "div" /\ evalLog[j].dec.tag = "div"
           /\ evalLog[j].dec.elem \in evalLog[i].at.above
    /\ \E j \in 1..Len(evalLog) : \E i \in 1..(j - 1) :
           /\ evalLog[i].dec.tag = "table" /\ evalLog[j].dec.tag = "div"
           /\ evalLog[i].dec.elem \in evalLog[j].at.above

-----------------------------------------------------------------------------
(* Scoring and normalizing *)

\* C6: once score_paragraphs has run, the link density of every element of
\* the document it scored lies in [0, 1], it is 0 without anchor
\* descendants, and the factor 1 - density that score_paragraphs applied to
\* a candidate is not negative
C6_LinkDensityInRange ==
    pc = "select" =>
        /\ \A e \in Elements(tree, doc) :
               LET density == get_link_density(tree, e)
               IN  /\ float_ge(density, float(0)) /\ float_ge(float(1), density)
                   /\ link_length(tree, e) <= total_length(tree, e)
                   /\ findall(tree, e, "a") = <<>> => density = float(0)
        /\ \A c \in DOMAIN densityLog :
               float_ge(float_sub(float(1), densityLog[c].density), float(0))

\* C9: transform_misused_divs_into_paragraphs retags a div to p exactly
\* when none of its direct children is one of a, blockquote, dl, div, img,
\* ol, p, pre, table, ul
C9_RetagIffNoBlockChild ==
    \A i \in 1..Len(retagLog) : retagLog[i].retagged <=> ~retagLog[i].child

====
